---- MODULE Spec2Model ----
(***************************************************************************)
(* Model of simplecoin_rpc_client/rpc.py: the payout table (class Payout), *)
(* the SQLAlchemy session with BEGIN EXCLUSIVE transactions, and the       *)
(* RPCClient commands pull_payouts, payout, confirm_trans, associate_all,  *)
(* reset_all_locked and dump_incomplete.  Every command runs in its own    *)
(* operating-system process (entry() builds one RPCClient and calls one    *)
(* action); the wallet (coinserv) and the remote server are external and   *)
(* answer nondeterministically.                                            *)
(***************************************************************************)
EXTENDS Integers, Sequences, FiniteSets, TLC

(* ------------------------------ bounds --------------------------------- *)
\* number of distinct pid values the remote server hands out
MaxPid == 2
\* number of sendmany calls the wallet answers
MaxSend == 2
\* largest wallet balance (satoshi) getbalance reports
MaxBalance == 2
\* largest number of entries in one get_payouts response
MaxResp == 2

(* ----------------------------- constants ------------------------------- *)
\* Payout.txid is a nullable column: None
NULL == 0
\* the simulated txid "1111...1" of payout(simulate=True)
FakeTxid == 1111
\* the amount of the "test" recipient added to every real sendmany
TestAmount == "1.1"

Procs == {1, 2}
\* the one engine of the sequential specification
SeqProcs == {1}
Pids == 1 .. MaxPid
Users == {"1ABC", "1XYZ", "3BAD"}
Amounts == {0, 1}
Balances == 0 .. MaxBalance
\* a wallet txid is the number of the sendmany call that produced it
WalletTxids == 1 .. MaxSend
Commands == {"pull_payouts", "payout", "confirm_trans", "associate_all",
             "reset_all_locked", "dump_incomplete"}

\* cryptokit.base58.get_bcaddress_version of the model's addresses
get_bcaddress_version(user) ==
    CASE user = "1ABC" -> 0
      [] user = "1XYZ" -> 0
      [] OTHER -> 5

\* config['valid_address_versions']
valid_address_versions == {0}

\* one (user, amount, pid) entry of the 'pids' list of get_payouts
Entries == [user : Users, amount : Amounts, pid : Pids]

(* ------------------------------- state --------------------------------- *)
VARIABLES
    rows,     \* the committed payouts table: a sequence of rows, id = index
    holder,   \* the process inside a BEGIN EXCLUSIVE transaction, 0 if none
    proc,     \* per process: command, position and local variables
    sends,    \* per pid: the number of sendmany calls that took effect and
              \* whose batch held the payout with that pid
    nsend     \* the number of sendmany calls issued so far

vars == <<rows, holder, proc, sends, nsend>>

\* Payout(pid=pid, user=user, amount=amount): txid None, the two flags False
Payout(pid, user, amount) ==
    [pid |-> pid, user |-> user, amount |-> amount, txid |-> NULL,
     associated |-> FALSE, locked |-> FALSE]

Ids(rws) == 1 .. Len(rws)

\* the local variables of a freshly started process
Fresh(command, sim) ==
    [op |-> command, pc |-> "start", simulate |-> sim,
     payouts |-> {}, user_payout_amounts |-> << >>, balance |-> -1,
     coin_txid |-> NULL, dirty |-> << >>,
     work |-> << >>, received |-> 0, remaining |-> 0, new |-> 0, repeat |-> 0,
     invalid |-> 0, txids |-> << >>, cur |-> NULL, todo |-> {}, log |-> "none",
     fetched |-> "none",
     objs |-> {}, lookup |-> << >>, tids |-> {}, fees |-> {}, posts |-> 0]

Init ==
    /\ rows = << >>
    /\ holder = 0
    /\ proc = [p \in Procs |-> [Fresh("none", FALSE) EXCEPT !.pc = "done"]]
    /\ sends = [pid \in Pids |-> 0]
    /\ nsend = 0

(* ------------------------- the session and table ----------------------- *)
\* a process that exits (return through entry(), exception, crash) closes its
\* connection: an open transaction is rolled back and the lock is released
Release(p) == IF holder = p THEN 0 ELSE holder

\* the first statement of a transaction emits BEGIN EXCLUSIVE: it needs the
\* database lock to be free or already held by this process
CanBegin(p) == holder \in {0, p}

\* one row with the attributes a flush writes changed
Merge(row, attrs) ==
    [f \in DOMAIN row |-> IF f \in DOMAIN attrs THEN attrs[f] ELSE row[f]]

\* session.commit(): flush the pending attribute changes (UPDATE ... WHERE
\* id = ?) and COMMIT
Commit(rws, dirty) ==
    [i \in Ids(rws) |-> IF i \in DOMAIN dirty THEN Merge(rws[i], dirty[i])
                                               ELSE rws[i]]

\* the process exits with changes pending in its session: nothing is written
Discard(rws, dirty) == rws

\* query(Payout).filter_by(pid=pid).first() is not None
PidStored(rws, pid) == \E i \in Ids(rws) : rws[i].pid = pid

\* the body of the pull_payouts loop for one entry with a valid address, as a
\* bug that writes the received values over the stored row
upsertReplace(rws, e) ==
    IF PidStored(rws, e.pid)
    THEN [i \in Ids(rws) |-> IF rws[i].pid = e.pid
                             THEN Payout(e.pid, e.user, e.amount) ELSE rws[i]]
    ELSE Append(rws, Payout(e.pid, e.user, e.amount))

\* the body of the pull_payouts loop for one entry with a valid address:
\* session.add(Payout(...)) if no row has the pid, nothing otherwise
upsertNew(rws, e) ==
    IF PidStored(rws, e.pid) THEN rws
    ELSE Append(rws, Payout(e.pid, e.user, e.amount))

(* ------------------------------ processes ------------------------------ *)
Set(p, r) == proc' = [proc EXCEPT ![p] = r]

\* the process ends (return to entry(), exception caught by call(), crash):
\* its session and local variables are gone, an open transaction is rolled
\* back; the last message it logged with logger.error stays on record
Exit(p, msg) ==
    /\ Set(p, [Fresh("none", FALSE) EXCEPT !.pc = "done", !.log = msg])
    /\ holder' = Release(p)

\* call(): except Exception logs "Unhandled exception calling {command}" and
\* returns False
Unhandled(p) == Exit(p, "unhandled exception calling " \o proc[p].op)

FirstPc(command) ==
    CASE command = "pull_payouts" -> "pull_post"
      [] command = "payout" -> "select"
      [] command = "confirm_trans" -> "confirm"
      [] command = "associate_all" -> "assoc_select"
      [] command = "dump_incomplete" -> "dump"
      [] OTHER -> "reset"

\* entry(): a new process runs one command, with or without --simulate
StartOf(p, commands) ==
    /\ proc[p].pc \in {"done", "crashed"}
    /\ \E command \in commands, sim \in BOOLEAN :
          Set(p, [Fresh(command, sim) EXCEPT !.pc = FirstPc(command)])
    /\ UNCHANGED <<rows, holder, sends, nsend>>

Start(p) == StartOf(p, Commands)

\* the commands of the concurrent specification: payout runs in both
\* processes, pull_payouts in the first
ConcCommands(p) == IF p = 1 THEN {"pull_payouts", "payout"} ELSE {"payout"}

StartConc(p) == StartOf(p, ConcCommands(p))

\* the process dies at any point of a command (kill, power loss)
Crash(p) ==
    /\ proc[p].pc \notin {"done", "crashed"}
    /\ Set(p, [Fresh("none", FALSE) EXCEPT !.pc = "crashed"])
    /\ holder' = Release(p)
    /\ UNCHANGED <<rows, sends, nsend>>

(* ----------------------------- pull_payouts ---------------------------- *)
\* the address test left out: every entry passes
AnyAddress(e) == TRUE

\* get_bcaddress_version(user) in self.config['valid_address_versions']
ValidAddress(e) == get_bcaddress_version(e.user) \in valid_address_versions

\* what a request to the remote server can meet: a signed 200 answer, a
\* non-200 answer, a body whose signature is invalid or expired, a transport
\* error of requests (connection, timeout)
Answers == {"ok", "non200", "baddata", "transport"}

\* remote() with the status test left out: the body of a non-200 answer is
\* read as the response
remoteUnchecked(answer) ==
    IF answer \in {"ok", "non200"} THEN "data" ELSE "raise"

\* remote(): the request raises (transport), a non-200 status raises
\* RPCException, BadData raises RPCException; else the loaded data is returned
remote(answer) == IF answer = "ok" THEN "data" ELSE "raise"

\* self.post('get_payouts', ...)['pids']: the request raises, and the
\* exception is caught by call(), or it answers a list of entries, which the
\* loop below reads one by one; when simulating the loop and the commit are
\* skipped and the counters are reported as they were initialised
PullPost(p) ==
    /\ proc[p].pc = "pull_post"
    /\ \E answer \in Answers :
          IF remote(answer) = "raise"
          THEN Unhandled(p)
          ELSE \E n \in 0 .. MaxResp :
                  /\ Set(p, [proc[p] EXCEPT
                               !.pc = "pull_loop", !.fetched = answer,
                               !.received = n,
                               !.remaining = IF proc[p].simulate THEN 0 ELSE n])
                  /\ UNCHANGED holder
    /\ UNCHANGED <<rows, sends, nsend>>

\* one iteration of "for user, amount, pid in payouts": the query of a valid
\* entry runs inside the exclusive transaction, which the first one opens,
\* and sees the rows added before it (autoflush)
PullEntry(p) ==
    /\ proc[p].pc = "pull_loop"
    /\ proc[p].remaining > 0
    /\ \E e \in Entries :
          IF ValidAddress(e)
          THEN /\ CanBegin(p)
               /\ holder' = p
               /\ LET view == IF holder = p THEN proc[p].work ELSE rows
                      stored == PidStored(view, e.pid)
                  IN  Set(p, [proc[p] EXCEPT
                                !.work = upsertNew(view, e),
                                !.remaining = @ - 1,
                                !.new = IF stored THEN @ ELSE @ + 1,
                                !.repeat = IF stored THEN @ + 1 ELSE @])
          ELSE /\ Set(p, [proc[p] EXCEPT !.remaining = @ - 1,
                                         !.invalid = @ + 1])
               /\ UNCHANGED holder
    /\ UNCHANGED <<rows, sends, nsend>>

\* self.db.session.commit() after the loop (not when simulating), the log of
\* the three counters, then return True
PullCommit(p) ==
    /\ proc[p].pc = "pull_loop"
    /\ proc[p].remaining = 0
    /\ rows' = IF holder = p /\ ~proc[p].simulate THEN proc[p].work ELSE rows
    /\ Exit(p, "none")
    /\ UNCHANGED <<sends, nsend>>

(* -------------------------------- payout ------------------------------- *)
\* query(Payout).filter_by(txid=None).all(): the select without the lock test
SelectedIgnoringLock(rws) == {i \in Ids(rws) : rws[i].txid = NULL}

\* query(Payout).filter_by(locked=False).all(): the select without the txid test
SelectedIgnoringTxid(rws) == {i \in Ids(rws) : rws[i].locked = FALSE}

\* query(Payout).filter_by(txid=None, locked=False).all(), as row ids
Selected(rws) ==
    {i \in Ids(rws) : rws[i].txid = NULL /\ rws[i].locked = FALSE}

RECURSIVE SumAmounts(_, _)
SumAmounts(rws, ids) ==
    IF ids = {} THEN 0
    ELSE LET i == CHOOSE j \in ids : TRUE
         IN  rws[i].amount + SumAmounts(rws, ids \ {i})

\* the dict user_payout_amounts built by the loop over payouts
UserPayoutAmounts(rws, batch) ==
    [u \in {rws[i].user : i \in batch} |->
        SumAmounts(rws, {i \in batch : rws[i].user = u})]

RECURSIVE SumValues(_, _)
SumValues(f, keys) ==
    IF keys = {} THEN 0
    ELSE LET k == CHOOSE j \in keys : TRUE
         IN  f[k] + SumValues(f, keys \ {k})

\* total_out = sum(user_payout_amounts.values())
TotalOut(upa) == SumValues(upa, DOMAIN upa)

\* user_payout_amounts["test"] = 1.1: the dict handed to payout_many
Recip(upa) ==
    [u \in DOMAIN upa \cup {"test"} |-> IF u = "test" THEN TestAmount ELSE upa[u]]

\* payout.locked = True for every payout of the batch (pending in the session)
LockBatch(batch) == [i \in batch |-> [locked |-> TRUE]]

\* payout.locked = False for every payout of the batch
UnlockBatch(batch) == [i \in batch |-> [locked |-> FALSE]]

\* the success branch run over the payouts of a new query of the unpaid
\* unlocked rows, together with the list read at the start
RecordSuccessRequeried(batch, txid) ==
    [i \in batch \cup Selected(rows) |-> [locked |-> FALSE, txid |-> txid]]

\* the success branch written without the unlock
RecordTxidOnly(batch, txid) == [i \in batch |-> [txid |-> txid]]

\* payout.locked = False; payout.txid = coin_txid for every payout of the batch
RecordSuccess(batch, txid) == [i \in batch |-> [locked |-> FALSE, txid |-> txid]]

\* self.poke_rpc(self.coinserv) answers or raises RPCException; then the
\* query opens the exclusive transaction, and the loop aggregates the amounts
\* per user and marks every selected payout locked in the session
PayoutSelect(p) ==
    /\ proc[p].pc = "select"
    /\ \/ Unhandled(p)
       \/ /\ CanBegin(p)
          /\ LET batch == Selected(rows)
             IN  IF batch = {}
                 THEN Exit(p, "none")
                 ELSE /\ holder' = p
                      /\ Set(p, [proc[p] EXCEPT
                            !.pc = "balance",
                            !.payouts = batch,
                            !.user_payout_amounts = UserPayoutAmounts(rows, batch),
                            !.dirty = LockBatch(batch)])
    /\ UNCHANGED <<rows, sends, nsend>>

\* session.rollback(): the pending changes are dropped
Rollback(rws, dirty) == rws

\* the lock of the batch left uncommitted before the send
CommitLockSkipped(rws, dirty) == Rollback(rws, dirty)

\* session.commit() of the lock, before the wallet is asked to pay
CommitLock(rws, dirty) == Commit(rws, dirty)

\* the out-of-funds branch with a commit in the place of the rollback
FundsCommit(rws, dirty) == Commit(rws, dirty)

\* session.rollback() of the out-of-funds branch
FundsRollback(rws, dirty) == Rollback(rws, dirty)

\* balance = int(getbalance() * 100000000), the funds test, and the commit
\* (rollback when simulating) of the lock
PayoutBalance(p) ==
    /\ proc[p].pc = "balance"
    /\ \/ /\ Unhandled(p)                       \* getbalance raises
          /\ UNCHANGED rows
       \/ \E b \in Balances :
             IF b < TotalOut(proc[p].user_payout_amounts)
             THEN /\ Exit(p, "out of funds")
                  /\ rows' = FundsRollback(rows, proc[p].dirty)
             ELSE IF proc[p].simulate
             THEN /\ Set(p, [proc[p] EXCEPT !.pc = "ask", !.balance = b,
                                            !.dirty = << >>])
                  /\ holder' = Release(p)
                  /\ rows' = Rollback(rows, proc[p].dirty)
             ELSE /\ rows' = CommitLock(rows, proc[p].dirty)
                  /\ holder' = Release(p)
                  /\ Set(p, [proc[p] EXCEPT !.pc = "send", !.balance = b,
                                            !.dirty = << >>])
    /\ UNCHANGED <<sends, nsend>>

\* simulate: raw_input asks whether to associate the fake txid
PayoutAsk(p) ==
    /\ proc[p].pc = "ask"
    /\ \/ Exit(p, "none")
       \/ /\ Set(p, [proc[p] EXCEPT !.pc = "record", !.coin_txid = FakeTxid])
          /\ UNCHANGED holder
    /\ UNCHANGED <<rows, sends, nsend>>

\* the pids of a batch of rows
PidsOf(rws, batch) == {rws[i].pid : i \in batch}

\* user_payout_amounts["test"] = 1.1 changes the dict in place, then
\* coin_txid = self.payout_many(user_payout_amounts): the wallet answers a
\* txid (the send took effect), or the call raises CoinRPCException or some
\* other exception (timeout, transport), having taken effect or not
PayoutSend(p) ==
    /\ proc[p].pc = "send"
    /\ nsend < MaxSend
    /\ nsend' = nsend + 1
    /\ \E answer \in {"txid", "CoinRPCException", "Exception"}, effect \in BOOLEAN :
          /\ answer = "txid" => effect
          /\ sends' = IF effect
                      THEN [pid \in Pids |->
                              IF pid \in PidsOf(rows, proc[p].payouts)
                              THEN sends[pid] + 1 ELSE sends[pid]]
                      ELSE sends
          /\ CASE answer = "txid" ->
                    /\ Set(p, [proc[p] EXCEPT !.pc = "record",
                                              !.user_payout_amounts = Recip(@),
                                              !.coin_txid = nsend + 1])
                    /\ UNCHANGED holder
               [] answer = "CoinRPCException" ->
                    /\ Set(p, [proc[p] EXCEPT !.pc = "recheck",
                                              !.user_payout_amounts = Recip(@)])
                    /\ UNCHANGED holder
               [] OTHER -> Unhandled(p)
    /\ UNCHANGED rows

\* except CoinRPCException: new_balance is read and compared with balance.
\* When it differs the function returns False.  When it is the same the
\* payouts are unlocked in the session only: the function ends without a
\* commit (the commit belongs to the else branch of the try), returns None,
\* and the process exits with the change still pending.
PayoutRecheck(p) ==
    /\ proc[p].pc = "recheck"
    /\ \/ /\ Unhandled(p)                       \* getbalance raises
          /\ UNCHANGED rows
       \/ \E nb \in Balances :
             IF nb # proc[p].balance
             THEN /\ Exit(p, "balance changed")
                  /\ UNCHANGED rows
             ELSE /\ Exit(p, "balance unchanged")
                  /\ rows' = Discard(rows, UnlockBatch(proc[p].payouts))
    /\ UNCHANGED <<sends, nsend>>

\* else: txid and unlock on every payout, commit, return coin_txid
PayoutRecord(p) ==
    /\ proc[p].pc = "record"
    /\ CanBegin(p)
    /\ rows' = Commit(rows, RecordSuccess(proc[p].payouts, proc[p].coin_txid))
    /\ Exit(p, "none")
    /\ UNCHANGED <<sends, nsend>>

(* --------------------------- reset_all_locked -------------------------- *)
\* payouts.update({Payout.locked: False}) on the rows with locked=True
ResetLocked(rws) == [i \in Ids(rws) |-> [rws[i] EXCEPT !.locked = FALSE]]

\* count(), then exit(0) when simulating, else the bulk update and commit
ResetAllLocked(p) ==
    /\ proc[p].pc = "reset"
    /\ CanBegin(p)
    /\ IF proc[p].simulate
       THEN Exit(p, "none") /\ UNCHANGED rows
       ELSE /\ rows' = ResetLocked(rows)
            /\ Exit(p, "none")
    /\ UNCHANGED <<sends, nsend>>

(* ----------------------------- associate_all --------------------------- *)
\* query(Payout).filter_by(associated=False): the query without the txid filter
Unassociated(rws) == {i \in Ids(rws) : rws[i].associated = FALSE}

\* query(Payout).filter_by(associated=False).filter(Payout.txid != None)
PaidUnassociated(rws) ==
    {i \in Ids(rws) : rws[i].associated = FALSE /\ rws[i].txid # NULL}

\* the dict txids: txid -> the payouts that carry it
GroupByTxid(rws, ids) ==
    [t \in {rws[i].txid : i \in ids} |-> {i \in ids : rws[i].txid = t}]

\* the groups of a dict that are left once group t is done
Without(groups, t) == [u \in (DOMAIN groups) \ {t} |-> groups[u]]

\* the query of associate_all opens the exclusive transaction
AssocSelect(p) ==
    /\ proc[p].pc = "assoc_select"
    /\ CanBegin(p)
    /\ LET groups == GroupByTxid(rows, PaidUnassociated(rows))
       IN  IF DOMAIN groups = {}
           THEN Exit(p, "none")
           ELSE /\ Set(p, [proc[p] EXCEPT !.pc = "assoc_post", !.txids = groups])
                /\ holder' = p
    /\ UNCHANGED <<rows, sends, nsend>>

\* the next group of "for txid, payouts in txids.iteritems()": only logged
\* when simulating, else associate() posts update_payouts to the remote
\* server, which accepts (result true), refuses (result false) or raises
AssocPost(p) ==
    /\ proc[p].pc = "assoc_post"
    /\ \E t \in DOMAIN proc[p].txids :
          LET rest == Without(proc[p].txids, t)
              more == /\ Set(p, [proc[p] EXCEPT !.txids = rest])
                      /\ UNCHANGED holder
          IN  IF proc[p].simulate
              THEN IF DOMAIN rest = {} THEN Exit(p, "none")
                                       ELSE more
              ELSE /\ CanBegin(p)
                   /\ \/ Unhandled(p)
                      \/ IF DOMAIN rest = {} THEN Exit(p, "none")
                                             ELSE more
                      \/ /\ Set(p, [proc[p] EXCEPT !.pc = "assoc_mark", !.cur = t,
                                                   !.todo = proc[p].txids[t]])
                         /\ holder' = p
    /\ UNCHANGED <<rows, sends, nsend>>

\* payout.associated = True for one payout of the group
MarkAssociated(i) == [j \in {i} |-> [associated |-> TRUE]]

\* one iteration of the loop of associate(): mark one payout and commit
AssocMark(p) ==
    /\ proc[p].pc = "assoc_mark"
    /\ CanBegin(p)
    /\ \E i \in proc[p].todo :
          LET left == proc[p].todo \ {i}
              rest == Without(proc[p].txids, proc[p].cur)
          IN  /\ rows' = Commit(rows, MarkAssociated(i))
              /\ IF left # {}
                 THEN /\ Set(p, [proc[p] EXCEPT !.todo = left])
                      /\ holder' = Release(p)
                 ELSE IF DOMAIN rest = {}
                 THEN Exit(p, "none")
                 ELSE /\ Set(p, [proc[p] EXCEPT !.pc = "assoc_post", !.todo = {},
                                                !.cur = NULL, !.txids = rest])
                      /\ holder' = Release(p)
    /\ UNCHANGED <<sends, nsend>>

(* ----------------------------- confirm_trans --------------------------- *)
\* config['trans_confirmations']
trans_confirmations == 1

\* what coinserv.gettransaction(txid) does for one object: it raises
\* (CoinRPCException or any other exception), or it returns trans_data with
\* its number of confirmations
Lookups ==
    {[ok |-> FALSE, confirmations |-> 0]}
       \cup {[ok |-> TRUE, confirmations |-> c] : c \in 1 .. 2}

\* the confirmation test written with >= in the place of >
ConfirmedAtThreshold(trans_data) ==
    trans_data.confirmations >= trans_confirmations

\* trans_data['confirmations'] > self.config['trans_confirmations']
Confirmed(trans_data) == trans_data.confirmations > trans_confirmations

\* poke_rpc and the get of the unconfirmed transactions: either raises (caught
\* by call()), res['success'] is false (logged, return), or res['objects'] is
\* a list of objects, for each of which the wallet has an answer
ConfirmGet(p) ==
    /\ proc[p].pc = "confirm"
    /\ \/ Unhandled(p)
       \/ Exit(p, "failure grabbing")
       \/ \E objects \in SUBSET WalletTxids :
          \E lookup \in [objects -> Lookups] :
             /\ Set(p, [proc[p] EXCEPT !.pc = "confirm_loop", !.objs = objects,
                                       !.lookup = lookup])
             /\ UNCHANGED holder
    /\ UNCHANGED <<rows, sends, nsend>>

\* one iteration of "for obj in res['objects']": a gettransaction that raises
\* is logged and the loop goes on; else the txid is appended to tids when
\* confirmed, and its fee is put in fees when the object asks for one and the
\* wallet reports one
ConfirmLookup(p) ==
    /\ proc[p].pc = "confirm_loop"
    /\ \E t \in proc[p].objs, fee \in BOOLEAN :
          LET trans_data == proc[p].lookup[t]
          IN  IF ~trans_data.ok
              THEN Set(p, [proc[p] EXCEPT !.objs = @ \ {t}])
              ELSE Set(p, [proc[p] EXCEPT
                             !.objs = @ \ {t},
                             !.tids = IF Confirmed(trans_data)
                                      THEN @ \cup {t} ELSE @,
                             !.fees = IF fee THEN @ \cup {t} ELSE @])
    /\ UNCHANGED <<rows, holder, sends, nsend>>

\* after the loop: "if tids or fees" the data is posted to
\* confirm_transactions, else the run logs that nothing is to be done
ConfirmPost(p) ==
    /\ proc[p].pc = "confirm_loop"
    /\ proc[p].objs = {}
    /\ IF proc[p].tids \cup proc[p].fees # {}
       THEN /\ Set(p, [proc[p] EXCEPT !.pc = "confirm_post", !.posts = @ + 1])
            /\ UNCHANGED holder
       ELSE Exit(p, "none")
    /\ UNCHANGED <<rows, sends, nsend>>

\* the answer of the post: it raises, res['result'] is true (return True) or
\* false (logged, return False)
ConfirmResult(p) ==
    /\ proc[p].pc = "confirm_post"
    /\ \/ Unhandled(p)
       \/ Exit(p, "none")
       \/ Exit(p, "failed to push")
    /\ UNCHANGED <<rows, sends, nsend>>

(* ---------------------------- dump_incomplete -------------------------- *)
\* three queries (unpaid locked, paid unassociated, unpaid unlocked) printed
\* as tables: the session reads inside the exclusive transaction and writes
\* nothing
DumpIncomplete(p) ==
    /\ proc[p].pc = "dump"
    /\ CanBegin(p)
    /\ Exit(p, "none")
    /\ UNCHANGED <<rows, sends, nsend>>

(* ---------------------------- specifications --------------------------- *)
Step(p) ==
    \/ Start(p)
    \/ Crash(p)
    \/ PullPost(p)
    \/ PullEntry(p)
    \/ PullCommit(p)
    \/ PayoutSelect(p)
    \/ PayoutBalance(p)
    \/ PayoutAsk(p)
    \/ PayoutSend(p)
    \/ PayoutRecheck(p)
    \/ PayoutRecord(p)
    \/ ResetAllLocked(p)
    \/ AssocSelect(p)
    \/ AssocPost(p)
    \/ AssocMark(p)
    \/ ConfirmGet(p)
    \/ ConfirmLookup(p)
    \/ ConfirmPost(p)
    \/ ConfirmResult(p)
    \/ DumpIncomplete(p)

\* one engine at a time: each command runs to its end (or crash) before the
\* next process starts
Next == \E p \in SeqProcs : Step(p)

Spec == Init /\ [][Next]_vars

\* one engine at a time, and reset_all_locked is never invoked
StepNoReset(p) ==
    \/ StartOf(p, Commands \ {"reset_all_locked"})
    \/ Crash(p)
    \/ PullPost(p)
    \/ PullEntry(p)
    \/ PullCommit(p)
    \/ PayoutSelect(p)
    \/ PayoutBalance(p)
    \/ PayoutAsk(p)
    \/ PayoutSend(p)
    \/ PayoutRecheck(p)
    \/ PayoutRecord(p)
    \/ AssocSelect(p)
    \/ AssocPost(p)
    \/ AssocMark(p)
    \/ ConfirmGet(p)
    \/ ConfirmLookup(p)
    \/ ConfirmPost(p)
    \/ ConfirmResult(p)
    \/ DumpIncomplete(p)

NextNoReset == \E p \in SeqProcs : StepNoReset(p)

SpecNoReset == Init /\ [][NextNoReset]_vars

\* two processes run pull_payouts and payout against the same database file
StepConc(p) ==
    \/ StartConc(p)
    \/ Crash(p)
    \/ PullPost(p)
    \/ PullEntry(p)
    \/ PullCommit(p)
    \/ PayoutSelect(p)
    \/ PayoutBalance(p)
    \/ PayoutAsk(p)
    \/ PayoutSend(p)
    \/ PayoutRecheck(p)
    \/ PayoutRecord(p)

NextConc == \E p \in Procs : StepConc(p)

SpecConc == Init /\ [][NextConc]_vars

\* the scheduler re-invokes pull_payouts and payout, never with --simulate
StartRetry(p) ==
    /\ StartOf(p, {"pull_payouts", "payout"})
    /\ ~proc'[p].simulate

\* payout is invoked
StartPayout(p) == StartRetry(p) /\ proc'[p].op = "payout"

\* the wallet answers poke_rpc and the select finds payouts to pay
SelectFinds(p) == PayoutSelect(p) /\ proc'[p].pc = "balance"

\* getbalance answers a balance that covers total_out
FundsCover(p) == PayoutBalance(p) /\ proc'[p].pc = "send"

\* sendmany answers a txid or raises CoinRPCException
SendAnswers(p) == PayoutSend(p) /\ proc'[p].pc \in {"record", "recheck"}

\* sendmany answers a txid
SendSucceeds(p) == PayoutSend(p) /\ proc'[p].pc = "record"

\* the balance read again after a failed send is the balance read before, or
\* getbalance raises
RecheckUnchanged(p) ==
    PayoutRecheck(p) /\ proc'[p].log # "balance changed"

\* one engine at a time, re-invoked for ever: no crash, no --simulate, no
\* reset_all_locked, no send failure that changes the balance
StepRetry(p) ==
    \/ StartRetry(p)
    \/ PullPost(p)
    \/ PullEntry(p)
    \/ PullCommit(p)
    \/ PayoutSelect(p)
    \/ PayoutBalance(p)
    \/ SendAnswers(p)
    \/ RecheckUnchanged(p)
    \/ PayoutRecord(p)

NextRetry == \E p \in SeqProcs : StepRetry(p)

\* a running command goes on to its end; payout is invoked again and again;
\* the wallet is reachable, covers the total and sends, each of them
\* eventually if it is tried again and again
SpecRetry ==
    /\ Init
    /\ [][NextRetry]_vars
    /\ WF_vars(NextRetry)
    /\ \A p \in SeqProcs :
          /\ SF_vars(StartPayout(p))
          /\ SF_vars(SelectFinds(p))
          /\ SF_vars(FundsCover(p))
          /\ SF_vars(SendSucceeds(p))
          /\ WF_vars(PayoutRecord(p))

(* -------------------------------- claims ------------------------------- *)
\* a row that is locked and unpaid in the committed table
LockedUnpaid(rws, i) == rws[i].locked = TRUE /\ rws[i].txid = NULL

\* a row that is unlocked and unpaid in the committed table
UnlockedUnpaid(rws, i) == rws[i].locked = FALSE /\ rws[i].txid = NULL

\* the process is inside a payout run and holds a selected batch
InPayout(p) == proc[p].pc \in {"balance", "ask", "send", "recheck", "record"}

\* the step by which reset_all_locked commits its bulk update
ResetStep == \E p \in Procs : proc[p].pc = "reset" /\ proc'[p].pc = "done"

\* C1: over any sequence of pull_payouts, payout, confirm_trans and
\* associate_all runs, with crashes between any two steps and sends that fail
\* with or without effect, and no reset_all_locked, no pid is in more than one
\* sendmany call that took effect.
C1_NoDoubleSend == \A pid \in Pids : sends[pid] <= 1

\* C1 witness: a payout was sent with effect and left locked and unpaid (crash
\* or failure after the send), and a later payout run has issued another send.
C1_Witness ==
    /\ proc[1].pc \in {"done", "crashed"}
    /\ nsend = 2
    /\ \E i \in Ids(rows) : LockedUnpaid(rows, i) /\ sends[rows[i].pid] = 1
    /\ \E j \in Ids(rows) : rows[j].txid = 2 /\ sends[rows[j].pid] = 1

\* C2 (as claimed): when the send raised CoinRPCException and the balance read
\* again equals the balance read before, the step by which payout returns
\* leaves every payout of the batch with locked = FALSE and txid unset in the
\* committed table.
C2_UnlockedAfterCleanFailure ==
    [][\A p \in Procs :
          (proc[p].pc = "recheck" /\ proc'[p].pc = "done"
             /\ proc'[p].log = "balance unchanged")
          => \A i \in proc[p].payouts : UnlockedUnpaid(rows', i)]_vars

\* C3: when the send raised CoinRPCException and the balance read again
\* differs, payout returns with every payout of the batch locked and unpaid in
\* the committed table; and a payout that is locked and unpaid and belongs to
\* no running payout stays so, and is selected by no payout run, through every
\* step that is not the commit of reset_all_locked.
C3_AmbiguousStaysLocked ==
    [][/\ \A p \in Procs :
             (proc[p].pc = "recheck" /\ proc'[p].pc = "done"
                /\ proc'[p].log = "balance changed")
             => \A i \in proc[p].payouts : LockedUnpaid(rows', i)
       /\ \A i \in Ids(rows) :
             (/\ LockedUnpaid(rows, i)
              /\ \A p \in Procs : InPayout(p) => i \notin proc[p].payouts
              /\ ~ResetStep)
             => /\ i \in Ids(rows')
                /\ LockedUnpaid(rows', i)
                /\ \A p \in Procs : i \notin proc'[p].payouts]_vars

\* C3 witness: a payout run has returned after a failed send with a changed
\* balance, and a payout is locked and unpaid in the table.
C3_Witness ==
    /\ proc[1].pc = "done"
    /\ proc[1].log = "balance changed"
    /\ \E i \in Ids(rows) : LockedUnpaid(rows, i)

\* C4: while a payout run has not passed the funds test the lock of its batch
\* is not in the committed table; and the step that ends the run at the funds
\* test (out of funds, getbalance raising, a crash) issues no send and leaves
\* the table as it was, every payout of the batch unlocked and unpaid.
C4_OutOfFundsUnlocked ==
    /\ [](\A p \in Procs :
             proc[p].pc = "balance"
             => \A i \in proc[p].payouts : UnlockedUnpaid(rows, i))
    /\ [][\A p \in Procs :
             (proc[p].pc = "balance" /\ proc'[p].pc \in {"done", "crashed"})
             => /\ nsend' = nsend
                /\ sends' = sends
                /\ rows' = rows
                /\ \A i \in proc[p].payouts : UnlockedUnpaid(rows', i)]_vars

\* C4 witness: a payout run has ended with "Payout wallet is out of funds!"
\* and the table holds an unlocked unpaid payout.
C4_Witness ==
    /\ proc[1].pc = "done"
    /\ proc[1].log = "out of funds"
    /\ nsend = 0
    /\ \E i \in Ids(rows) : UnlockedUnpaid(rows, i)

\* C5: the step by which payout records a txid returned by the wallet leaves
\* every payout of the batch with that txid and locked = FALSE and every other
\* row as it was; the commit of the lock changes no row outside the batch.
C5_SuccessRecorded ==
    [][\A p \in Procs :
          /\ (proc[p].pc = "record" /\ proc'[p].pc = "done"
                /\ proc[p].coin_txid \in WalletTxids)
             => /\ Len(rows') = Len(rows)
                /\ \A i \in Ids(rows) :
                      IF i \in proc[p].payouts
                      THEN rows'[i].txid = proc[p].coin_txid
                           /\ rows'[i].locked = FALSE
                      ELSE rows'[i] = rows[i]
          /\ (proc[p].pc = "balance" /\ proc'[p].pc = "send")
             => /\ Len(rows') = Len(rows)
                /\ \A i \in Ids(rows) \ proc[p].payouts : rows'[i] = rows[i]]_vars

\* C5 witness: the second send returned a txid that is recorded on an unlocked
\* payout, while a payout outside that batch is still locked and unpaid.
C5_Witness ==
    /\ proc[1].pc = "done"
    /\ \E i \in Ids(rows) : rows[i].txid = 2 /\ rows[i].locked = FALSE
    /\ \E j \in Ids(rows) : LockedUnpaid(rows, j)

\* C6: no two rows of the table carry the same pid, and no step of a
\* pull_payouts run changes a row that is already stored: the rows of the
\* session, and then of the table, only grow at the end.
C6_OneRowPerPid ==
    /\ [](\A i, j \in Ids(rows) : rows[i].pid = rows[j].pid => i = j)
    /\ [][\A p \in Procs :
             proc[p].pc = "pull_loop"
             => /\ Len(rows') >= Len(rows)
                /\ \A i \in Ids(rows) : rows'[i] = rows[i]
                /\ (holder = p /\ proc'[p].pc = "pull_loop")
                   => /\ Len(proc'[p].work) >= Len(proc[p].work)
                      /\ \A i \in Ids(proc[p].work) :
                            proc'[p].work[i] = proc[p].work[i]]_vars

\* C6 witness: a pull whose response held the same new pid twice has inserted
\* it once and counted the second entry as a repeat; and it has seen again a
\* pid that was already stored.
C6_Witness ==
    /\ proc[1].pc = "pull_loop"
    /\ proc[1].remaining = 0
    /\ proc[1].new = 1
    /\ proc[1].repeat = 1
    /\ Len(rows) = 0
    /\ Len(proc[1].work) = 1

\* C7 (as claimed): two processes that are both inside a payout run hold
\* disjoint batches.
C7_DisjointBatches ==
    \A p, q \in Procs :
       (p # q /\ InPayout(p) /\ InPayout(q))
       => proc[p].payouts \cap proc[q].payouts = {}

\* C7 (amended): two processes that are both inside a payout run without
\* --simulate hold disjoint batches; and from the select to the commit or
\* rollback of the lock the run holds the exclusive transaction.
C7_DisjointRealBatches ==
    /\ \A p, q \in Procs :
          (p # q /\ InPayout(p) /\ InPayout(q)
             /\ ~proc[p].simulate /\ ~proc[q].simulate)
          => proc[p].payouts \cap proc[q].payouts = {}
    /\ \A p \in Procs : proc[p].pc = "balance" => holder = p

\* C7 witness: two payout runs without --simulate are both about to send,
\* each with a batch of its own.
C7_Witness ==
    /\ proc[1].pc = "send" /\ proc[2].pc = "send"
    /\ proc[1].payouts # {} /\ proc[2].payouts # {}

\* C8: a row with associated = TRUE has a txid; the groups associate_all
\* holds, posts and marks are groups of rows with one non-null txid.
C8_AssociatedHasTxid ==
    /\ \A i \in Ids(rows) : rows[i].associated => rows[i].txid # NULL
    /\ \A p \in Procs :
          /\ \A t \in DOMAIN proc[p].txids :
                /\ t # NULL
                /\ \A i \in proc[p].txids[t] : rows[i].txid = t
          /\ \A i \in proc[p].todo :
                proc[p].cur # NULL /\ rows[i].txid = proc[p].cur

\* C8 witness: associate_all has marked a paid payout associated while an
\* unpaid payout sits in the table, not associated.
C8_Witness ==
    /\ \E i \in Ids(rows) : rows[i].associated
    /\ \E j \in Ids(rows) : rows[j].txid = NULL /\ ~rows[j].associated
    /\ proc[1].pc = "done"

\* C9: a txid that is set in the committed table is the same in the next
\* state, whatever step is taken.
C9_TxidPermanent ==
    [][\A i \in Ids(rows) :
          rows[i].txid # NULL
          => i \in Ids(rows') /\ rows'[i].txid = rows[i].txid]_vars

\* C9 witness: a payout paid by the first send and since associated still has
\* its txid after a later payout run recorded the txid of the second send.
C9_Witness ==
    /\ \E i \in Ids(rows) : rows[i].txid = 1 /\ rows[i].associated
    /\ \E j \in Ids(rows) : rows[j].txid = 2

\* C10 (as claimed): whenever the send of payout raises, whatever the
\* exception, the run goes on to read the balance again.
C10_EveryFailureRechecks ==
    [][\A p \in Procs :
          (proc[p].pc = "send" /\ proc'[p].pc \notin {"send", "record", "crashed"})
          => proc'[p].pc = "recheck"]_vars

\* C11: in a payout run without --simulate the step that passes the funds
\* test commits locked = TRUE on every payout of the batch, all of them
\* unlocked before it, in that one step; sendmany is called only by such a run
\* past that commit; and while the run is at or after the send every payout of
\* its batch is locked and unpaid in the committed table, so that a crash from
\* there leaves them locked.
C11_LockCommittedBeforeSend ==
    /\ [](\A p \in SeqProcs :
             (proc[p].pc \in {"send", "recheck", "record"} /\ ~proc[p].simulate)
             => \A i \in proc[p].payouts : LockedUnpaid(rows, i))
    /\ [][\A p \in SeqProcs :
             /\ (proc[p].pc = "balance" /\ proc'[p].pc = "send")
                => /\ \A i \in proc[p].payouts : UnlockedUnpaid(rows, i)
                   /\ \A i \in proc[p].payouts : LockedUnpaid(rows', i)
             /\ (nsend' # nsend /\ proc'[p] # proc[p])
                => /\ proc[p].pc = "send"
                   /\ ~proc[p].simulate
                   /\ \A i \in proc[p].payouts : LockedUnpaid(rows, i)
             /\ (proc[p].pc \in {"send", "recheck", "record"}
                   /\ ~proc[p].simulate /\ proc'[p].pc = "crashed")
                => \A i \in proc[p].payouts : LockedUnpaid(rows', i)]_vars

\* C11 witness: the process crashed after its only sendmany call, which took
\* effect for both stored payouts, and both are locked and unpaid in the table.
C11_Witness ==
    /\ proc[1].pc = "crashed"
    /\ nsend = 1
    /\ Len(rows) = 2
    /\ \A i \in Ids(rows) : LockedUnpaid(rows, i) /\ sends[rows[i].pid] = 1

\* C12 (as claimed): once a payout run without --simulate has called
\* sendmany, the dict it passed has one entry for each user of the batch and
\* no other entry, each entry the sum of the amounts of that user's payouts of
\* the batch.
C12_RecipientMapIsAggregate ==
    \A p \in SeqProcs :
       (proc[p].pc \in {"recheck", "record"} /\ ~proc[p].simulate)
       => /\ DOMAIN proc[p].user_payout_amounts
                = {rows[i].user : i \in proc[p].payouts}
          /\ \A u \in DOMAIN proc[p].user_payout_amounts :
                proc[p].user_payout_amounts[u]
                   = SumAmounts(rows, {i \in proc[p].payouts : rows[i].user = u})

\* C13 (as claimed): while associate() marks a group the remote server has
\* accepted, the payouts of that group have the same value of associated in
\* the committed table: all still FALSE or all TRUE.
C13_GroupMarkedAtomically ==
    \A p \in SeqProcs :
       proc[p].pc = "assoc_mark"
       => \A i, j \in proc[p].txids[proc[p].cur] :
             rows[i].associated = rows[j].associated

\* C14 (as claimed): a non-simulated associate_all run ends, other than by a
\* crash of the process, only when no group is left to push: the group it
\* last pushed is the only one still in txids.
C14_EveryGroupPushed ==
    [][\A p \in SeqProcs :
          (proc[p].pc = "assoc_post" /\ ~proc[p].simulate
             /\ proc'[p].pc = "done")
          => Cardinality(DOMAIN proc[p].txids) = 1]_vars

\* the rows the session of a pull_payouts run sees: its own transaction's
\* when it has one open, else the committed table
PullView(p, rws, hld, prc) == IF hld = p THEN prc[p].work ELSE rws

\* the counters of a pull_payouts run account for every entry read so far
PullCounted(p) ==
    proc[p].new + proc[p].repeat + proc[p].invalid + proc[p].remaining
       = proc[p].received

\* one iteration of the loop of pull_payouts counts the entry once: as new,
\* with one row added at the end, unlocked, unpaid, unassociated, of an
\* allowed address version and of a pid that was not stored; or as repeat or
\* invalid, with no row added
PullIterationCounted(p) ==
    LET before == PullView(p, rows, holder, proc)
        after  == PullView(p, rows', holder', proc')
        added  == after[Len(after)]
    IN  IF proc'[p].new = proc[p].new + 1
        THEN /\ Len(after) = Len(before) + 1
             /\ ~PidStored(before, added.pid)
             /\ get_bcaddress_version(added.user) \in valid_address_versions
             /\ added.txid = NULL
             /\ ~added.locked
             /\ ~added.associated
             /\ proc'[p].repeat = proc[p].repeat
             /\ proc'[p].invalid = proc[p].invalid
        ELSE /\ after = before
             /\ proc'[p].new = proc[p].new
             /\ proc'[p].repeat + proc'[p].invalid
                   = proc[p].repeat + proc[p].invalid + 1

\* C15 (as claimed): in every pull_payouts run every stored row has a user
\* whose address version is allowed, each iteration of the loop counts its
\* entry once as new (one row added), repeat or invalid (no row added), and
\* once the loop is over new + repeat + invalid is the number of entries
\* received.
C15_PullCounters ==
    /\ [](\A i \in Ids(rows) :
             get_bcaddress_version(rows[i].user) \in valid_address_versions)
    /\ [](\A p \in SeqProcs : proc[p].pc = "pull_loop" => PullCounted(p))
    /\ [][\A p \in SeqProcs :
             (proc[p].pc = "pull_loop" /\ proc'[p].pc = "pull_loop")
             => PullIterationCounted(p)]_vars

\* C15 (amended): the same for the pull_payouts runs without --simulate, where
\* moreover the rows added by the run are as many as it counted new; a run
\* with --simulate reads no entry, counts nothing and stores nothing.
C15_PullCountersReal ==
    /\ [](\A i \in Ids(rows) :
             get_bcaddress_version(rows[i].user) \in valid_address_versions)
    /\ [](\A p \in SeqProcs :
             proc[p].pc = "pull_loop"
             => IF proc[p].simulate
                THEN /\ proc[p].new = 0 /\ proc[p].repeat = 0
                     /\ proc[p].invalid = 0 /\ proc[p].remaining = 0
                     /\ holder # p
                ELSE /\ PullCounted(p)
                     /\ Len(PullView(p, rows, holder, proc))
                           = Len(rows) + proc[p].new
                     /\ holder # p => proc[p].new = 0 /\ proc[p].repeat = 0)
    /\ [][\A p \in SeqProcs :
             /\ (proc[p].pc = "pull_loop" /\ proc'[p].pc = "pull_loop")
                => PullIterationCounted(p)
             /\ (proc[p].pc = "pull_loop" /\ proc'[p].pc = "done")
                => rows' = IF proc[p].simulate
                           THEN rows
                           ELSE PullView(p, rows, holder, proc)]_vars

\* C15 witness: a pull that received two entries has read both, one with an
\* allowed address, counted new, and one with an address that is not allowed,
\* counted invalid.
C15_Witness ==
    /\ proc[1].pc = "pull_loop"
    /\ ~proc[1].simulate
    /\ proc[1].received = 2
    /\ proc[1].remaining = 0
    /\ proc[1].new = 1
    /\ proc[1].invalid = 1
    /\ Len(proc[1].work) = Len(rows) + 1

\* C16: a pull_payouts run enters its loop only with the data of a request
\* that succeeded; the step by which the run ends at the request (non-200
\* answer, invalid or expired signature, transport error) is the exception
\* caught by call(), and it leaves the committed table and the database lock
\* as they were.
C16_FetchFailureNoEffect ==
    /\ [](\A p \in SeqProcs :
             proc[p].pc = "pull_loop" => proc[p].fetched = "ok")
    /\ [][\A p \in SeqProcs :
             (proc[p].pc = "pull_post" /\ proc'[p].pc = "done")
             => /\ rows' = rows
                /\ holder' = holder
                /\ proc'[p].log = "unhandled exception calling pull_payouts"]_vars

\* C16 witness: a pull_payouts run has ended by the exception of its request
\* while the table holds a payout stored by an earlier run.
C16_Witness ==
    /\ proc[1].pc = "done"
    /\ proc[1].log = "unhandled exception calling pull_payouts"
    /\ Len(rows) = 1
    /\ UnlockedUnpaid(rows, 1)

\* C17 (as claimed): every row of the committed table has amount > 0.
C17_AmountPositive == \A i \in Ids(rows) : rows[i].amount > 0

\* C18: the batch of a payout run is the set of rows its select found
\* unlocked and unpaid, and stays that set until the run ends; a step of the
\* run changes no row outside the batch and counts a send for no pid outside
\* it; the commit of the lock changes the locked flag of exactly the rows of
\* the batch, and the record of the txid writes exactly those rows.  A row
\* appended to the table after the select is not in the batch.
C18_FixedSnapshot ==
    /\ [](\A p \in Procs : InPayout(p) => proc[p].payouts \subseteq Ids(rows))
    /\ [][\A p \in Procs :
             /\ (proc[p].pc = "select" /\ proc'[p].pc = "balance")
                => proc'[p].payouts = Selected(rows)
             /\ (InPayout(p) /\ proc'[p] # proc[p])
                => /\ InPayout(p)' => proc'[p].payouts = proc[p].payouts
                   /\ Len(rows') = Len(rows)
                   /\ \A i \in Ids(rows) \ proc[p].payouts : rows'[i] = rows[i]
                   /\ \A pid \in Pids :
                         sends'[pid] # sends[pid]
                         => pid \in PidsOf(rows, proc[p].payouts)
             /\ (proc[p].pc = "balance" /\ proc'[p].pc = "send")
                => {i \in Ids(rows) : rows'[i].locked # rows[i].locked}
                      = proc[p].payouts
             /\ (proc[p].pc = "record" /\ proc'[p].pc = "done"
                   /\ ~proc[p].simulate)
                => {i \in Ids(rows) : rows'[i] # rows[i]} = proc[p].payouts]_vars

\* C18 witness: the second process, without --simulate, is about to record
\* the txid of its send on a batch of one payout, while a payout that a
\* pull_payouts of the first process committed after the select sits in the
\* table, unlocked and unpaid.
C18_Witness ==
    /\ proc[2].pc = "record"
    /\ ~proc[2].simulate
    /\ proc[2].payouts = {1}
    /\ proc[1].pc = "done"
    /\ Len(rows) = 2
    /\ UnlockedUnpaid(rows, 2)
    /\ sends[rows[2].pid] = 0

\* C19: in a confirm_trans run a gettransaction that raises removes its
\* object from the loop and nothing else, and the loop goes on to the objects
\* that are left; when the loop is over tids is the set of the objects whose
\* lookup returned with more confirmations than trans_confirmations; the run
\* posts at most once, after the loop, and what it posts is that set with the
\* fees; no step of the run changes the committed table.
C19_ConfirmSkipsFailedLookups ==
    /\ [](\A p \in SeqProcs :
             /\ proc[p].posts <= 1
             /\ proc[p].pc = "confirm_post"
                => /\ proc[p].posts = 1
                   /\ proc[p].objs = {}
                   /\ proc[p].tids \cup proc[p].fees # {}
             /\ (proc[p].pc \in {"confirm_loop", "confirm_post"}
                   /\ proc[p].objs = {})
                => /\ proc[p].tids =
                         {t \in DOMAIN proc[p].lookup :
                             /\ proc[p].lookup[t].ok
                             /\ proc[p].lookup[t].confirmations
                                   > trans_confirmations}
                   /\ \A t \in proc[p].fees : proc[p].lookup[t].ok)
    /\ [][\A p \in SeqProcs :
             /\ proc[p].pc \in {"confirm", "confirm_loop", "confirm_post"}
                => rows' = rows
             /\ (proc[p].pc = "confirm_loop" /\ proc[p].objs # {}
                   /\ proc'[p] # proc[p])
                => /\ proc'[p].pc \in {"confirm_loop", "crashed"}
                   /\ proc'[p].pc = "confirm_loop"
                      => \E t \in proc[p].objs :
                            /\ proc'[p].objs = proc[p].objs \ {t}
                            /\ ~proc[p].lookup[t].ok
                               => /\ proc'[p].tids = proc[p].tids
                                  /\ proc'[p].fees = proc[p].fees]_vars

\* C19 witness: of two unconfirmed transactions the lookup of one raised and
\* the other was found confirmed; the run has posted the confirmed one, and
\* the table holds a payout.
C19_Witness ==
    /\ proc[1].pc = "confirm_post"
    /\ DOMAIN proc[1].lookup = {1, 2}
    /\ \E t \in {1, 2} : ~proc[1].lookup[t].ok
    /\ Cardinality(proc[1].tids) = 1
    /\ Len(rows) > 0

\* every payout of the committed table has a txid
AllPaid == \A i \in Ids(rows) : rows[i].txid # NULL

\* C20 (as claimed): under re-invocation, once a payout run has ended with a
\* failed send and an unchanged balance, a later state has every stored payout
\* paid: the payouts of the failed batch are selected and paid by a later run.
C20_RetryPaysAfterCleanFailure ==
    (\E p \in SeqProcs : proc[p].log = "balance unchanged") ~> AllPaid

\* C21: no row of the committed table is locked and paid at once; a step that
\* commits locked = TRUE on a row leaves that row without a txid; and a step
\* that commits a txid on a row leaves that row unlocked.
C21_NeverLockedAndPaid ==
    /\ [](\A i \in Ids(rows) : ~(rows[i].locked /\ rows[i].txid # NULL))
    /\ [][\A i \in Ids(rows) :
             /\ (~rows[i].locked /\ rows'[i].locked) => rows'[i].txid = NULL
             /\ rows'[i].txid # rows[i].txid => ~rows'[i].locked]_vars

\* C21 witness: a payout run has committed the lock of its batch and is about
\* to send, while the table holds a paid, unlocked payout of an earlier run
\* that is not part of the batch.
C21_Witness ==
    /\ proc[1].pc = "send"
    /\ \E j \in proc[1].payouts : LockedUnpaid(rows, j)
    /\ \E i \in Ids(rows) \ proc[1].payouts :
          rows[i].txid # NULL /\ ~rows[i].locked

====
